---- MODULE Spec2Model ----
(***************************************************************************)
(* Model of the node-side session store of flo                             *)
(* (crates/node/src/session/mod.rs): SessionStore, PendingPlayerRegistry,  *)
(* GameRegistry and GameRegistryGuard, with the create-game handler        *)
(* executed by several controller tasks at once.                           *)
(***************************************************************************)
EXTENDS Integers, Sequences, FiniteSets, TLC

\* ---------------------------------------------------------------- bounds
NumThreads == 2
MaxSlots == 2
MaxTokens == 2

\* ---------------------------------------------------------- input domains
Threads == 1..NumThreads
PlayerIdSet == {7, 8}
GameIdSet == {1, 2}
NoThread == 0 - 1

\* Option<Player> of a slot: {} is None, {p} is Some(player p)
SlotSet == {{}} \cup {{p} : p \in PlayerIdSet}
SlotSeqs == UNION {[1..n -> SlotSet] : n \in 0..MaxSlots}

\* PacketControllerCreateGame: game is an optional field
NoGamePacket == [has_game |-> FALSE, id |-> 1, slots |-> <<>>, well_formed |-> TRUE]
Packets ==
  {NoGamePacket} \cup
  [has_game : {TRUE}, id : GameIdSet, slots : SlotSeqs, well_formed : BOOLEAN]

\* the requests of the concurrent tasks: one slot, bound to a player
ConcurrentPackets ==
  {pkt \in Packets : Len(pkt.slots) = 1 /\ pkt.slots[1] # {}}

\* the requests of the single task: any descriptor for game 1, or no game
SequentialPackets == {pkt \in Packets : pkt.id = 1}

GameStatusSet == {"Created", "Running", "Ended"}

VARIABLES
  pc,                    \* position of each controller task in the handler
  packet,                \* the request each task is handling
  pending,               \* local `pending` : Vec<(PlayerToken, PendingPlayer)>
  stale_pending_players, \* local result of PendingPlayerRegistry::register
  ret,                   \* the value the handler returned to each task
  g_guard,               \* holder of the GameRegistry.map write lock
  player_token_guard,    \* holder of the PendingPlayerRegistry.player_token mutex
  map_guard,             \* holder of the PendingPlayerRegistry.map write lock
  connected_players,     \* keys of SessionStore.connected_players
  games,                 \* GameRegistry.map : game id -> GameSession
  player_token,          \* PendingPlayerRegistry.player_token : player id -> token
  pending_map,           \* PendingPlayerRegistry.map : token -> PendingPlayer
  next_token,            \* number of PlayerTokens minted so far
  GAME_SESSIONS,         \* metrics::GAME_SESSIONS
  PENDING_PLAYER_TOKENS  \* metrics::PENDING_PLAYER_TOKENS

locals == <<pc, packet, pending, stale_pending_players, ret>>
locks == <<g_guard, player_token_guard, map_guard>>
registries == <<games, player_token, pending_map>>
metrics == <<GAME_SESSIONS, PENDING_PLAYER_TOKENS>>
vars == <<pc, packet, pending, stale_pending_players, ret, g_guard,
          player_token_guard, map_guard, connected_players, games,
          player_token, pending_map, next_token, GAME_SESSIONS,
          PENDING_PLAYER_TOKENS>>

\* ------------------------------------------------------------ HashMap ops
MapInsert(m, k, v) == [x \in DOMAIN m \cup {k} |-> IF x = k THEN v ELSE m[x]]
MapRemove(m, k) == [x \in DOMAIN m \ {k} |-> m[x]]
EmptyMap == [x \in {} |-> 0]

\* ------------------------------------------------------- handler results
NoResult == [kind |-> "None"]
ErrResult(e) == [kind |-> "Err", error |-> e]
RejectResult(game_id, reason) ==
  [kind |-> "Reject", game_id |-> game_id, reason |-> reason]
AcceptResult(game_id, tokens) ==
  [kind |-> "Accept", game_id |-> game_id, player_tokens |-> tokens]

\* --------------------------------------------------------- pure functions
\* game.slots.iter().filter_map(|s| s.player.as_ref().map(|p| p.player_id))
RECURSIVE player_ids(_)
player_ids(slots) ==
  IF slots = <<>> THEN <<>>
  ELSE LET rest == player_ids(Tail(slots))
       IN IF Head(slots) = {} THEN rest
          ELSE <<CHOOSE p \in Head(slots) : TRUE>> \o rest

\* mutant: the NoPlayer check never fires
is_empty_never(ids) == FALSE

\* if player_ids.is_empty() { return Err(Error::NoPlayer) }
is_empty(ids) == Len(ids) = 0

\* mutant: the scan of the connected-player index finds nobody
busy_ids_none(ids, connected) == <<>>

\* for id in &player_ids { if connected_players_guard.contains_key(id) {..} }
\* the ids (in order) that are keys of the connected-player index
RECURSIVE busy_ids(_, _)
busy_ids(ids, connected) ==
  IF ids = <<>> THEN <<>>
  ELSE IF Head(ids) \in connected
       THEN <<Head(ids)>> \o busy_ids(Tail(ids), connected)
       ELSE busy_ids(Tail(ids), connected)

\* mutant: pre_check lets every game id through
pre_check_pass(gs, game_id) == "Ok"

\* GameRegistryGuard::pre_check
pre_check(gs, game_id) ==
  IF game_id \in DOMAIN gs /\ gs[game_id].status # "Created"
  THEN "GameExists"
  ELSE "Ok"

\* the match on the pre_check error in the handler
reject_reason(err) ==
  CASE err = "GameExists" -> "GameExists"
    [] err = "PlayerBusy" -> "PlayerBusy"
    [] OTHER -> "HardError"

\* PlayerToken::new(): a value no earlier call produced
PlayerTokenNew(minted, i) == minted + i

\* mutant: one token is minted outside the closure and shared by all pairs
mint_pending_shared_token(slots, game_id, minted) ==
  LET ids == player_ids(slots)
  IN [i \in 1..Len(ids) |->
        [token |-> PlayerTokenNew(minted, 1),
         player |-> [player_id |-> ids[i], game_id |-> game_id]]]

\* let pending: Vec<(PlayerToken, PendingPlayer)> = ...
mint_pending(slots, game_id, minted) ==
  LET ids == player_ids(slots)
  IN [i \in 1..Len(ids) |->
        [token |-> PlayerTokenNew(minted, i),
         player |-> [player_id |-> ids[i], game_id |-> game_id]]]

\* let player_tokens: Vec<_> = pending.iter().map(...)
player_tokens_of(pairs) ==
  [i \in 1..Len(pairs) |->
     [player_id |-> pairs[i].player.player_id, token |-> pairs[i].token]]

\* one iteration of the loop of PendingPlayerRegistry::register
register_pair(st, pair) ==
  LET player_id == pair.player.player_id
      occupied == player_id \in DOMAIN st.player_token
      prev_token == st.player_token[player_id]
      pt1 == IF occupied
             THEN MapInsert(st.player_token, player_id, pair.token)
             ELSE st.player_token
      stale_player == IF occupied /\ prev_token \in DOMAIN st.map
                      THEN <<st.map[prev_token]>>
                      ELSE <<>>
      map1 == IF occupied THEN MapRemove(st.map, prev_token) ELSE st.map
  IN [player_token |-> pt1,
      map |-> MapInsert(map1, pair.token, pair.player),
      stale |-> st.stale \o stale_player]

\* PendingPlayerRegistry::register: the loop over the pairs
RECURSIVE register_loop(_, _)
register_loop(st, pairs) ==
  IF pairs = <<>> THEN st
  ELSE register_loop(register_pair(st, Head(pairs)), Tail(pairs))

register(pt, map, pairs) ==
  register_loop([player_token |-> pt, map |-> map, stale |-> <<>>], pairs)

\* GameSession::new(game)
GameSessionNew(game) == [status |-> "Created", slots |-> game.slots]
GameSessionNewFails(game) == ~game.well_formed

\* mutant: entry(game_id).or_insert(session), an existing session is kept
games_insert_keep(gs, game_id, session) ==
  IF game_id \in DOMAIN gs THEN gs ELSE MapInsert(gs, game_id, session)

\* self.guard.insert(game_id, session)
games_insert(gs, game_id, session) == MapInsert(gs, game_id, session)

\* mutant: the lock is handed out although somebody holds it
lock_free_always(holder) == TRUE

\* parking_lot lock acquisition: possible when nobody holds the lock
lock_free(holder) == holder = NoThread

\* ------------------------------------------------------------------- Init
Init ==
  /\ pc = [t \in Threads |-> "idle"]
  /\ packet = [t \in Threads |-> NoGamePacket]
  /\ pending = [t \in Threads |-> <<>>]
  /\ stale_pending_players = [t \in Threads |-> <<>>]
  /\ ret = [t \in Threads |-> NoResult]
  /\ g_guard = NoThread
  /\ player_token_guard = NoThread
  /\ map_guard = NoThread
  /\ connected_players = {}
  /\ games = EmptyMap
  /\ player_token = EmptyMap
  /\ pending_map = EmptyMap
  /\ next_token = 0
  /\ GAME_SESSIONS = 0
  /\ PENDING_PLAYER_TOKENS = 0

\* ------------------------------------------------------ handler, by steps
PlayerBusyResult(id) == [kind |-> "Err", error |-> "PlayerBusy", player_id |-> id]

\* tokens the calls in flight have yet to mint
RECURSIVE tokens_to_mint(_)
tokens_to_mint(ts) ==
  IF ts = {} THEN 0
  ELSE LET t == CHOOSE x \in ts : TRUE
       IN (IF pc[t] \in {"called", "lock_games"}
           THEN Len(player_ids(packet[t].slots)) ELSE 0)
          + tokens_to_mint(ts \ {t})

\* the handler returns its result to the caller
Return(t, result) ==
  /\ ret' = [ret EXCEPT ![t] = result]
  /\ pc' = [pc EXCEPT ![t] = "done"]

\* the request leaves the calls (in flight included) at most limit tokens
WithinBudget(pkt, limit) ==
  next_token + tokens_to_mint(Threads) + Len(player_ids(pkt.slots)) <= limit

\* a controller request arrives at task t
Call(t, pkt) ==
  /\ pc[t] = "idle"
  /\ pc' = [pc EXCEPT ![t] = "called"]
  /\ packet' = [packet EXCEPT ![t] = pkt]
  /\ UNCHANGED <<pending, stale_pending_players, ret, locks, connected_players,
                 registries, next_token, metrics>>

\* lines 45-65: extract the game, collect the bound players, the NoPlayer
\* check, the scan of the connected-player index under its read lock
Validate(t) ==
  /\ pc[t] = "called"
  /\ LET ids == player_ids(packet[t].slots)
         busy == busy_ids(ids, connected_players)
     IN IF ~packet[t].has_game
        THEN Return(t, ErrResult("MissingField"))
        ELSE IF is_empty(ids)
        THEN Return(t, ErrResult("NoPlayer"))
        ELSE IF busy # <<>>
        THEN Return(t, PlayerBusyResult(Head(busy)))
        ELSE /\ pc' = [pc EXCEPT ![t] = "lock_games"]
             /\ UNCHANGED ret
  /\ UNCHANGED <<packet, pending, stale_pending_players>>
  /\ UNCHANGED <<locks, connected_players, registries, next_token, metrics>>

\* lines 67-110: self.games.lock(), pre_check, the reject response, the
\* minting of the (token, pending player) pairs
PreCheck(t) ==
  /\ pc[t] = "lock_games"
  /\ lock_free(g_guard)
  /\ LET game_id == packet[t].id
         err == pre_check(games, game_id)
         reason == reject_reason(err)
         pairs == mint_pending(packet[t].slots, game_id, next_token)
     IN IF err # "Ok"
        THEN /\ IF reason = "HardError"
                THEN Return(t, ErrResult(err))
                ELSE Return(t, RejectResult(game_id, reason))
             /\ UNCHANGED <<g_guard, next_token, pending>>
        ELSE /\ g_guard' = t
             /\ pending' = [pending EXCEPT ![t] = pairs]
             /\ next_token' = next_token + Len(pairs)
             /\ pc' = [pc EXCEPT ![t] = "lock_player_token"]
             /\ UNCHANGED ret
  /\ UNCHANGED <<packet, stale_pending_players, player_token_guard, map_guard, connected_players,
                 registries, metrics>>

\* line 158: let mut player_token_guard = self.player_token.lock()
LockPlayerToken(t) ==
  /\ pc[t] = "lock_player_token"
  /\ lock_free(player_token_guard)
  /\ player_token_guard' = t
  /\ pc' = [pc EXCEPT ![t] = "lock_map"]
  /\ UNCHANGED <<packet, pending, stale_pending_players, ret, g_guard,
                 map_guard, connected_players, registries, next_token, metrics>>

\* line 159: let mut map_guard = self.map.write()
LockMap(t) ==
  /\ pc[t] = "lock_map"
  /\ lock_free(map_guard)
  /\ map_guard' = t
  /\ pc' = [pc EXCEPT ![t] = "register"]
  /\ UNCHANGED <<packet, pending, stale_pending_players, ret, g_guard,
                 player_token_guard, connected_players, registries,
                 next_token, metrics>>

\* mutant: the player_token guard outlives register
Register_keeps_guard(t) ==
  /\ pc[t] = "register"
  /\ LET r == register(player_token, pending_map, pending[t])
     IN /\ player_token' = r.player_token
        /\ pending_map' = r.map
        /\ stale_pending_players' = [stale_pending_players EXCEPT ![t] = r.stale]
  /\ map_guard' = NoThread
  /\ pc' = [pc EXCEPT ![t] = "games_register"]
  /\ UNCHANGED <<packet, pending, ret, g_guard, player_token_guard,
                 connected_players, games, next_token, metrics>>

\* lines 161-193 and 112-121: the loop under both guards, which are dropped
\* when register returns; the stale players are only logged
Register(t) ==
  /\ pc[t] = "register"
  /\ LET r == register(player_token, pending_map, pending[t])
     IN /\ player_token' = r.player_token
        /\ pending_map' = r.map
        /\ stale_pending_players' = [stale_pending_players EXCEPT ![t] = r.stale]
  /\ map_guard' = NoThread
  /\ player_token_guard' = NoThread
  /\ pc' = [pc EXCEPT ![t] = "games_register"]
  /\ UNCHANGED <<packet, pending, ret, g_guard, connected_players, games,
                 next_token, metrics>>

\* lines 123-134: g_guard.register(game)?, the metrics, the accept response
GamesRegister(t) ==
  /\ pc[t] = "games_register"
  /\ LET game == packet[t]
         tokens == player_tokens_of(pending[t])
     IN IF GameSessionNewFails(game)
        THEN /\ Return(t, ErrResult("GameSessionNew"))
             /\ UNCHANGED <<games, metrics>>
        ELSE /\ games' = games_insert(games, game.id, GameSessionNew(game))
             /\ GAME_SESSIONS' =
                  GAME_SESSIONS + (IF game.id \in DOMAIN games THEN 0 ELSE 1) + 1
             /\ PENDING_PLAYER_TOKENS' = PENDING_PLAYER_TOKENS + Len(tokens)
             /\ Return(t, AcceptResult(game.id, tokens))
  /\ g_guard' = NoThread
  /\ UNCHANGED <<packet, pending, stale_pending_players, player_token_guard,
                 map_guard, connected_players, player_token, pending_map,
                 next_token>>

\* the caller consumes the result and the handler's locals are dropped; the
\* task is free for the next request
Finish(t) ==
  /\ pc[t] = "done"
  /\ pc' = [pc EXCEPT ![t] = "idle"]
  /\ ret' = [ret EXCEPT ![t] = NoResult]
  /\ packet' = [packet EXCEPT ![t] = NoGamePacket]
  /\ pending' = [pending EXCEPT ![t] = <<>>]
  /\ stale_pending_players' = [stale_pending_players EXCEPT ![t] = <<>>]
  /\ UNCHANGED <<locks,
                 connected_players, registries, next_token, metrics>>

\* ------------------------------------------------------------ environment
\* a player completes a connection / its connection is dropped
ClientConnect(p) ==
  /\ p \notin connected_players
  /\ connected_players' = connected_players \cup {p}
  /\ UNCHANGED <<locals, locks, registries, next_token, metrics>>

ClientDisconnect(p) ==
  /\ p \in connected_players
  /\ connected_players' = connected_players \ {p}
  /\ UNCHANGED <<locals, locks, registries, next_token, metrics>>

\* a task holding the shared session advances its status
NextStatus(s) == IF s = "Created" THEN "Running" ELSE "Ended"

AdvanceStatus(g) ==
  /\ g \in DOMAIN games
  /\ games[g].status # "Ended"
  /\ games' = [games EXCEPT ![g].status = NextStatus(games[g].status)]
  /\ UNCHANGED <<locals, locks, connected_players, player_token, pending_map,
                 next_token, metrics>>

\* =========================================== lobby: player connection loop
PING_INTERVAL == 30
PING_TIMEOUT == 5

\* the clock advances in steps of the shortest delay of the loop
TimeStep == PING_TIMEOUT
\* the latest instant the model follows, in seconds after the loop started
MaxTime == 40
\* messages put on the outbound queue, and frames the peer sends
MaxMsgs == 2
MaxFrames == 1

NoGame == 0
JoinedGameSet == {NoGame, 1}
PlayerSenderMessage == {"Frame", "Frames", "Broken"}

VARIABLES
  cpc,                \* position of the connection task in serve/handle_stream
  result,             \* how the task left handle_stream
  player_sender,      \* the player's state holds the sender of this connection
  remove_sender_calls,\* calls of remove_sender made by the task
  joined_game_id,     \* the player's joined game in the lobby state
  game_id,            \* local game_id of send_initial_state
  wire,               \* frames written to the stream, in order
  now,                \* seconds since the stop watch was started
  next_ping,          \* instant at which the delay of this iteration ends
  ping_ms,            \* stamp of the last ping sent
  ping_timout_abort,  \* the loop holds an abort handle (Some) or not (None)
  timeout_task,       \* the spawned timeout future
  timeout_at,         \* instant at which its delay ends
  notify_permit,      \* ping_timeout_notify holds a notification
  receiver,           \* messages on the outbound queue
  queue_closed,       \* every sender of the outbound queue was dropped
  inbound,            \* what the stream holds for recv_frame
  enqueued,           \* messages enqueued so far
  received,           \* inbound events delivered so far
  latency             \* the latency logged for the last pong

conn_task == <<cpc, result, player_sender, remove_sender_calls, game_id>>
conn_timers == <<now, next_ping, ping_ms, ping_timout_abort, timeout_task,
                 timeout_at, notify_permit>>
conn_io == <<wire, receiver, queue_closed, inbound, enqueued, received, latency>>
conn_vars == <<conn_task, conn_timers, conn_io, joined_game_id>>

NoLatency == 0 - 1

ConnInit ==
  /\ cpc = "handshake"
  /\ result = "none"
  /\ player_sender = FALSE
  /\ remove_sender_calls = 0
  /\ joined_game_id = NoGame
  /\ game_id = NoGame
  /\ wire = <<>>
  /\ now = 0
  /\ next_ping = 0
  /\ ping_ms = 0
  /\ ping_timout_abort = FALSE
  /\ timeout_task = "none"
  /\ timeout_at = 0
  /\ notify_permit = FALSE
  /\ receiver = <<>>
  /\ queue_closed = FALSE
  /\ inbound = <<>>
  /\ enqueued = 0
  /\ received = 0
  /\ latency = NoLatency

\* StopWatch::elapsed_ms at instant t
elapsed_ms(t) == t * 1000

\* mutant: the plain difference, negative for a stamp ahead of the clock
plain_sub(a, b) == a - b

\* u32::saturating_sub
saturating_sub(a, b) == IF a >= b THEN a - b ELSE 0

\* mutant: the error of handle_stream is propagated with `?`, the task ends
Leave_and_exit(r) ==
  /\ cpc' = "exited"
  /\ result' = r

\* the task leaves handle_stream with result r
Leave(r) ==
  /\ cpc' = "returned"
  /\ result' = r

\* ---------------------------------------------------------------- serve
\* handle_handshake accepts the stream
HandshakeOk ==
  /\ cpc = "handshake"
  /\ cpc' = "accepted"
  /\ UNCHANGED <<result, player_sender, remove_sender_calls, game_id,
                 conn_timers, conn_io, joined_game_id>>

\* peer_addr or handle_handshake fails: the task returns, nothing registered
HandshakeFails ==
  /\ cpc = "handshake"
  /\ cpc' = "dropped"
  /\ UNCHANGED <<result, player_sender, remove_sender_calls, game_id,
                 conn_timers, conn_io, joined_game_id>>

\* PlayerSenderRef::new and replace_sender under the player state lock
ReplaceSender ==
  /\ cpc = "accepted"
  /\ cpc' = "initial"
  /\ player_sender' = TRUE
  /\ UNCHANGED <<result, remove_sender_calls, game_id, conn_timers, conn_io,
                 joined_game_id>>

\* remove_sender, after handle_stream has returned
RemoveSender ==
  /\ cpc = "returned"
  /\ cpc' = "exited"
  /\ player_sender' = FALSE
  /\ remove_sender_calls' = remove_sender_calls + 1
  /\ UNCHANGED <<result, game_id, conn_timers, conn_io, joined_game_id>>

\* --------------------------------------------------- send_initial_state
\* the session frame for a player whose joined game is g
SessionFrame(g) == IF g # NoGame THEN "SessionInGame" ELSE "SessionIdle"

\* mutant: the game-info frame is pushed in front of the session frame
initial_frames_game_first(g) ==
  (IF g # NoGame THEN <<"GameInfo">> ELSE <<>>) \o <<SessionFrame(g)>>

\* the frames send_initial_state builds for joined game g
initial_frames(g) ==
  <<SessionFrame(g)>> \o (IF g # NoGame THEN <<"GameInfo">> ELSE <<>>)

\* the player record is fetched and the joined game id read under the lock
InitialRead(ok) ==
  /\ cpc = "initial"
  /\ IF ok
     THEN /\ game_id' = joined_game_id
          /\ cpc' = "initial_send"
          /\ UNCHANGED result
     ELSE /\ Leave("InitialStateFailed")
          /\ UNCHANGED game_id
  /\ UNCHANGED <<player_sender, remove_sender_calls, conn_timers, conn_io,
                 joined_game_id>>

\* the frames are built and sent; on success the stop watch is started and
\* the first iteration of the loop creates its delay
InitialSend(ok, written) ==
  /\ cpc = "initial_send"
  /\ IF ok
     THEN /\ wire' = wire \o initial_frames(game_id)
          /\ cpc' = "select"
          /\ now' = 0
          /\ next_ping' = PING_INTERVAL
          /\ UNCHANGED result
     ELSE /\ written \in 0..(Len(initial_frames(game_id)) - 1)
          /\ wire' = wire \o SubSeq(initial_frames(game_id), 1, written)
          /\ Leave("InitialStateFailed")
          /\ UNCHANGED <<now, next_ping>>
  /\ UNCHANGED <<player_sender, remove_sender_calls, game_id, ping_ms,
                 ping_timout_abort, timeout_task, timeout_at, notify_permit,
                 receiver, queue_closed, inbound, enqueued, received, latency,
                 joined_game_id>>

\* ------------------------------------------------- handle_stream: the loop
\* delay_for(d) created at instant t ends at t + d
delay_for(t, d) == t + d

\* the pong stamps a peer may echo: the last ping's, or one 3 ms off
PongStamps == {m \in {ping_ms - 3, ping_ms, ping_ms + 3} : m >= 0}

InboundSet ==
  [kind : {"Pong"}, ms : PongStamps]
    \cup {[kind |-> "Other", ms |-> 0], [kind |-> "Error", ms |-> 0]}

\* the branches of the select that are ready
timer_ready == now >= next_ping
notified_ready == notify_permit
recv_ready == receiver # <<>> \/ queue_closed
recv_frame_ready == inbound # <<>>

\* `_ = &mut next_ping`: send a ping, spawn the abortable timeout
TimerBranch(ok) ==
  /\ cpc = "select"
  /\ timer_ready
  /\ IF ok
     THEN /\ wire' = Append(wire, "Ping")
          /\ ping_ms' = elapsed_ms(now)
          /\ timeout_task' = "pending"
          /\ timeout_at' = delay_for(now, PING_TIMEOUT)
          /\ ping_timout_abort' = TRUE
          /\ next_ping' = delay_for(now, PING_INTERVAL)
          /\ UNCHANGED <<cpc, result>>
     ELSE /\ Leave("SendFailed")
          /\ UNCHANGED <<wire, ping_ms, timeout_task, timeout_at,
                         ping_timout_abort, next_ping>>
  /\ UNCHANGED <<player_sender, remove_sender_calls, game_id, now,
                 notify_permit, receiver, queue_closed, inbound, enqueued,
                 received, latency, joined_game_id>>

\* `_ = ping_timeout_notify.notified()`: break
TimeoutBranch ==
  /\ cpc = "select"
  /\ notified_ready
  /\ notify_permit' = FALSE
  /\ Leave("TimedOut")
  /\ UNCHANGED <<player_sender, remove_sender_calls, game_id, now, next_ping,
                 ping_ms, ping_timout_abort, timeout_task, timeout_at,
                 conn_io, joined_game_id>>

\* mutant: the Broken sentinel is written to the stream like a frame
OutgoingBranch_sends_broken(ok) ==
  /\ cpc = "select"
  /\ receiver # <<>>
  /\ receiver' = Tail(receiver)
  /\ wire' = Append(wire, Head(receiver))
  /\ next_ping' = delay_for(now, PING_INTERVAL)
  /\ UNCHANGED <<cpc, result>>
  /\ UNCHANGED <<player_sender, remove_sender_calls, game_id, now, ping_ms,
                 ping_timout_abort, timeout_task, timeout_at, notify_permit,
                 queue_closed, inbound, enqueued, received, latency,
                 joined_game_id>>

\* `outgoing = receiver.recv()`
OutgoingBranch(ok) ==
  /\ cpc = "select"
  /\ recv_ready
  /\ IF receiver = <<>>
     THEN \* None: sender dropped
          /\ Leave("SenderDropped")
          /\ UNCHANGED <<receiver, wire, next_ping>>
     ELSE /\ receiver' = Tail(receiver)
          /\ IF Head(receiver) = "Broken"
             THEN /\ Leave("SenderBroken")
                  /\ UNCHANGED <<wire, next_ping>>
             ELSE IF ok
             THEN /\ wire' = Append(wire, Head(receiver))
                  /\ next_ping' = delay_for(now, PING_INTERVAL)
                  /\ UNCHANGED <<cpc, result>>
             ELSE /\ Leave("SendFailed")
                  /\ UNCHANGED <<wire, next_ping>>
  /\ UNCHANGED <<player_sender, remove_sender_calls, game_id, now, ping_ms,
                 ping_timout_abort, timeout_task, timeout_at, notify_permit,
                 queue_closed, inbound, enqueued, received, latency,
                 joined_game_id>>

\* mutant: the abort handle is taken but the task is left running
abort_forgotten(task) == task

\* AbortHandle::abort: a task that has not completed never notifies
abort(task) == IF task = "pending" THEN "aborted" ELSE task

\* flo_net::frame_packet! with the single arm PacketPong: a frame of another
\* type is ignored by this loop
frame_packet_fails(kind) == FALSE

\* `incoming = stream.recv_frame()`
IncomingBranch ==
  /\ cpc = "select"
  /\ recv_frame_ready
  /\ inbound' = Tail(inbound)
  /\ ping_timout_abort' = FALSE
  /\ timeout_task' = IF ping_timout_abort THEN abort(timeout_task)
                     ELSE timeout_task
  /\ IF Head(inbound).kind = "Error" \/ frame_packet_fails(Head(inbound).kind)
     THEN /\ Leave("StreamError")
          /\ UNCHANGED <<latency, next_ping>>
     ELSE /\ latency' = IF Head(inbound).kind = "Pong"
                        THEN saturating_sub(elapsed_ms(now), Head(inbound).ms)
                        ELSE latency
          /\ next_ping' = delay_for(now, PING_INTERVAL)
          /\ UNCHANGED <<cpc, result>>
  /\ UNCHANGED <<player_sender, remove_sender_calls, game_id, now, ping_ms,
                 timeout_at, notify_permit, wire, receiver, queue_closed,
                 enqueued, received, joined_game_id>>

\* mutant: the delay of the spawned future ends without a notification
TimeoutFires_no_notify ==
  /\ timeout_task = "pending"
  /\ now >= timeout_at
  /\ timeout_task' = "fired"
  /\ UNCHANGED <<conn_task, now, next_ping, ping_ms, ping_timout_abort,
                 timeout_at, notify_permit, conn_io, joined_game_id>>

\* the spawned future: delay_for(PING_TIMEOUT), then notify
TimeoutFires ==
  /\ timeout_task = "pending"
  /\ now >= timeout_at
  /\ timeout_task' = "fired"
  /\ notify_permit' = TRUE
  /\ UNCHANGED <<conn_task, now, next_ping, ping_ms, ping_timout_abort,
                 timeout_at, conn_io, joined_game_id>>

\* ------------------------------------------------ the connection's peers
\* some part of the lobby enqueues a message for the player
Enqueue(msg) ==
  /\ player_sender
  /\ cpc \in {"initial", "initial_send", "select"}
  /\ ~queue_closed
  /\ enqueued < MaxMsgs
  /\ receiver' = Append(receiver, msg)
  /\ enqueued' = enqueued + 1
  /\ UNCHANGED <<conn_task, conn_timers, wire, queue_closed, inbound,
                 received, latency, joined_game_id>>

\* the last sender of the outbound queue is dropped
DropSenders ==
  /\ cpc = "select"
  /\ ~queue_closed
  /\ queue_closed' = TRUE
  /\ UNCHANGED <<conn_task, conn_timers, wire, receiver, inbound, enqueued,
                 received, latency, joined_game_id>>

\* the peer sends a frame, or the stream fails or is closed
Deliver(ev) ==
  /\ cpc = "select"
  /\ inbound = <<>>
  /\ received < MaxFrames
  /\ inbound' = <<ev>>
  /\ received' = received + 1
  /\ UNCHANGED <<conn_task, conn_timers, wire, receiver, queue_closed,
                 enqueued, latency, joined_game_id>>

\* the player joins or leaves a game before the connection reads its state
JoinLeave(g) ==
  /\ cpc \in {"accepted", "initial"}
  /\ g # joined_game_id
  /\ joined_game_id' = g
  /\ UNCHANGED <<conn_task, conn_timers, conn_io>>

\* time passes; the loop and the timeout future are scheduled promptly,
\* so no time passes while a branch of the select is ready or the delay of
\* the timeout future has ended
Tick ==
  /\ now < MaxTime
  /\ cpc = "select" \/ timeout_task = "pending"
  /\ cpc = "select" =>
       ~(timer_ready \/ notified_ready \/ recv_ready \/ recv_frame_ready)
  /\ timeout_task = "pending" => now < timeout_at
  /\ now' = now + TimeStep
  /\ UNCHANGED <<conn_task, next_ping, ping_ms, ping_timout_abort,
                 timeout_task, timeout_at, notify_permit, conn_io,
                 joined_game_id>>

\* ================================================= lan: GameInfo codec
\* strings and byte strings are sequences of byte values
NUL == 0

\* format!("{}", n) of an unsigned number
RECURSIVE format_uint(_)
format_uint(n) ==
  IF n < 10 THEN <<48 + n>> ELSE Append(format_uint(n \div 10), 48 + (n % 10))

is_digit(c) == c >= 48 /\ c <= 57

\* the digits of str::parse: an optional '+', then at least one digit
parse_digits(s) == IF s # <<>> /\ s[1] = 43 THEN Tail(s) ELSE s

RECURSIVE parse_value(_, _, _)
\* the value of the digits d read after acc, or -1 beyond max
parse_value(d, acc, max) ==
  IF d = <<>> THEN acc
  ELSE LET next == acc * 10 + (d[1] - 48)
       IN IF next > max THEN 0 - 1 ELSE parse_value(Tail(d), next, max)

\* str::parse for an unsigned type with the largest value max: -1 is Err
parse_uint(s, max) ==
  LET d == parse_digits(s)
  IN IF d = <<>> \/ \E i \in DOMAIN d : ~is_digit(d[i]) THEN 0 - 1
     ELSE parse_value(d, 0, max)

U8_MAX == 255
\* u32 and u64 values are followed up to the largest number TLC represents
WideMax == 2147483647

is_cont(b) == b >= 128 /\ b <= 191

\* the length of the well-formed UTF-8 sequence s starts with, 0 if none
utf8_len(s) ==
  LET b == s[1]
      n == Len(s)
  IN IF b < 128 THEN 1
     ELSE IF b >= 194 /\ b <= 223 /\ n >= 2 /\ is_cont(s[2]) THEN 2
     ELSE IF b >= 224 /\ b <= 239 /\ n >= 3 /\ is_cont(s[2]) /\ is_cont(s[3])
             /\ (b = 224 => s[2] >= 160) /\ (b = 237 => s[2] <= 159) THEN 3
     ELSE IF b >= 240 /\ b <= 244 /\ n >= 4 /\ is_cont(s[2]) /\ is_cont(s[3])
             /\ is_cont(s[4])
             /\ (b = 240 => s[2] >= 144) /\ (b = 244 => s[2] <= 143) THEN 4
     ELSE 0

RECURSIVE is_utf8(_)
is_utf8(s) ==
  IF s = <<>> THEN TRUE
  ELSE utf8_len(s) > 0 /\ is_utf8(SubSeq(s, utf8_len(s) + 1, Len(s)))

\* U+FFFD
REPLACEMENT == <<239, 191, 189>>

\* String::from_utf8_lossy
RECURSIVE from_utf8_lossy(_)
from_utf8_lossy(s) ==
  IF s = <<>> THEN <<>>
  ELSE IF utf8_len(s) > 0
  THEN SubSeq(s, 1, utf8_len(s))
         \o from_utf8_lossy(SubSeq(s, utf8_len(s) + 1, Len(s)))
  ELSE REPLACEMENT \o from_utf8_lossy(Tail(s))

\* base64, standard alphabet with padding
b64_char(i) ==
  IF i < 26 THEN 65 + i
  ELSE IF i < 52 THEN 97 + (i - 26)
  ELSE IF i < 62 THEN 48 + (i - 52)
  ELSE IF i = 62 THEN 43 ELSE 47

b64_index(c) ==
  IF c >= 65 /\ c <= 90 THEN c - 65
  ELSE IF c >= 97 /\ c <= 122 THEN c - 97 + 26
  ELSE IF c >= 48 /\ c <= 57 THEN c - 48 + 52
  ELSE IF c = 43 THEN 62
  ELSE IF c = 47 THEN 63
  ELSE 0 - 1

PAD == 61

RECURSIVE base64_encode(_)
base64_encode(b) ==
  IF b = <<>> THEN <<>>
  ELSE IF Len(b) = 1
  THEN <<b64_char(b[1] \div 4), b64_char((b[1] % 4) * 16), PAD, PAD>>
  ELSE IF Len(b) = 2
  THEN <<b64_char(b[1] \div 4),
         b64_char((b[1] % 4) * 16 + (b[2] \div 16)),
         b64_char((b[2] % 16) * 4), PAD>>
  ELSE <<b64_char(b[1] \div 4),
         b64_char((b[1] % 4) * 16 + (b[2] \div 16)),
         b64_char((b[2] % 16) * 4 + (b[3] \div 64)),
         b64_char(b[3] % 64)>> \o base64_encode(SubSeq(b, 4, Len(b)))

\* base64::decode: [ok, bytes]
RECURSIVE base64_decode(_)
base64_decode(s) ==
  IF s = <<>> THEN [ok |-> TRUE, bytes |-> <<>>]
  ELSE IF Len(s) < 4 \/ b64_index(s[1]) < 0 \/ b64_index(s[2]) < 0
  THEN [ok |-> FALSE, bytes |-> <<>>]
  ELSE
    LET i1 == b64_index(s[1])
        i2 == b64_index(s[2])
        i3 == b64_index(s[3])
        i4 == b64_index(s[4])
        rest == base64_decode(SubSeq(s, 5, Len(s)))
        b1 == i1 * 4 + (i2 \div 16)
        b2 == (i2 % 16) * 16 + (i3 \div 4)
        b3 == (i3 % 4) * 64 + i4
    IN IF s[3] = PAD /\ s[4] = PAD
       THEN [ok |-> Len(s) = 4 /\ i2 % 16 = 0, bytes |-> <<b1>>]
       ELSE IF s[4] = PAD
       THEN [ok |-> Len(s) = 4 /\ i3 >= 0 /\ i3 % 4 = 0, bytes |-> <<b1, b2>>]
       ELSE [ok |-> i3 >= 0 /\ i4 >= 0 /\ rest.ok,
             bytes |-> <<b1, b2, b3>> \o rest.bytes]

\* little-endian unsigned numbers
le16(n) == <<n % 256, n \div 256>>
le32(n) == <<n % 256, (n \div 256) % 256, (n \div 65536) % 256, n \div 16777216>>
from_le16(b) == b[1] + 256 * b[2]
from_le32(b) == b[1] + 256 * b[2] + 65536 * b[3] + 16777216 * b[4]

\* GameData::encode_to_bytes (derived BinEncode): the fields in order
GameData_encode(d) ==
  d.name \o <<NUL>> \o <<0>> \o <<d.settings>>
    \o le32(d.slots_total) \o le32(d.flags) \o le16(d.port)

\* the position of the first NUL of b, 0 if there is none
first_nul(b) ==
  IF \E i \in DOMAIN b : b[i] = NUL
  THEN CHOOSE i \in DOMAIN b : b[i] = NUL /\ \A j \in 1..(i - 1) : b[j] # NUL
  ELSE 0

\* GameData::decode (derived BinDecode); bytes after the port stay unread
GameData_decode(b) ==
  LET k == first_nul(b)
  IN IF k = 0 \/ Len(b) < k + 12 \/ b[k + 1] # 0
     THEN [ok |-> FALSE]
     ELSE [ok |-> TRUE,
           data |-> [name |-> SubSeq(b, 1, k - 1),
                     settings |-> b[k + 2],
                     slots_total |-> from_le32(SubSeq(b, k + 3, k + 6)),
                     flags |-> from_le32(SubSeq(b, k + 7, k + 10)),
                     port |-> from_le16(SubSeq(b, k + 11, k + 12))]]

\* prost: Message::encode, and Message::decode, which refuses a string field
\* that is not UTF-8
Message_encode(message) == message
Message_decode(bytes) ==
  [ok |-> /\ is_utf8(bytes.name)
          /\ \A i \in DOMAIN bytes.entries : is_utf8(bytes.entries[i].value),
   message |-> bytes]

Entry(k, v) == [key |-> k, value |-> v]

\* mutant: players_max is written from players_num
encode_entries_copy_paste(v, name_utf8, create_time, data) ==
  <<Entry("players_num", format_uint(v.players_num)),
    Entry("_name", name_utf8),
    Entry("players_max", format_uint(v.players_num)),
    Entry("game_create_time", format_uint(create_time)),
    Entry("_type", format_uint(1)),
    Entry("_subtype", format_uint(0)),
    Entry("game_secret", format_uint(v.secret)),
    Entry("game_data", data),
    Entry("game_id", v.game_id),
    Entry("_flags", format_uint(0))>>

\* the entries encode_to_bytes writes
encode_entries(v, name_utf8, create_time, data) ==
  <<Entry("players_num", format_uint(v.players_num)),
    Entry("_name", name_utf8),
    Entry("players_max", format_uint(v.players_max)),
    Entry("game_create_time", format_uint(create_time)),
    Entry("_type", format_uint(1)),
    Entry("_subtype", format_uint(0)),
    Entry("game_secret", format_uint(v.secret)),
    Entry("game_data", data),
    Entry("game_id", v.game_id),
    Entry("_flags", format_uint(0))>>

\* GameInfo::encode_to_bytes
encode_to_bytes(v) ==
  LET data == base64_encode(GameData_encode(v.data))
      name_utf8 == from_utf8_lossy(v.name)
  IN IF v.create_time < 0
     THEN [ok |-> FALSE, error |-> "encode: invalid create_time"]
     ELSE [ok |-> TRUE,
           bytes |-> Message_encode(
             [name |-> name_utf8,
              message_id |-> v.message_id,
              entries |-> encode_entries(v, name_utf8, v.create_time, data)])]

\* the HashMap collected from the entries: the last entry of a key counts
has_entry(entries, k) == \E i \in DOMAIN entries : entries[i].key = k
get_entry(entries, k) ==
  LET i == CHOOSE i \in DOMAIN entries :
             /\ entries[i].key = k
             /\ \A j \in DOMAIN entries : entries[j].key = k => j <= i
  IN entries[i].value

InvalidGameInfo(msg) == [ok |-> FALSE, error |-> msg]

\* GameInfo::decode_bytes
decode_bytes(bytes) ==
  LET decoded == Message_decode(bytes)
      message == decoded.message
      entries == message.entries
      data_bytes == base64_decode(get_entry(entries, "game_data"))
      game_data == GameData_decode(data_bytes.bytes)
      secret == parse_uint(get_entry(entries, "game_secret"), WideMax)
      game_create_time == parse_uint(get_entry(entries, "game_create_time"), WideMax)
      players_num == parse_uint(get_entry(entries, "players_num"), U8_MAX)
      players_max == parse_uint(get_entry(entries, "players_max"), U8_MAX)
  IN IF ~decoded.ok THEN InvalidGameInfo("prost decode")
     ELSE IF ~has_entry(entries, "game_data")
       THEN InvalidGameInfo("no game_data entry")
     ELSE IF ~data_bytes.ok THEN InvalidGameInfo("base64")
     ELSE IF ~game_data.ok THEN InvalidGameInfo("game data")
     ELSE IF ~has_entry(entries, "game_id")
       THEN InvalidGameInfo("no game_id entry")
     ELSE IF ~has_entry(entries, "game_secret")
       THEN InvalidGameInfo("no game_secret entry")
     ELSE IF secret < 0 THEN InvalidGameInfo("invalid game_secret")
     ELSE IF ~has_entry(entries, "game_create_time")
       THEN InvalidGameInfo("no game_create_time entry")
     ELSE IF game_create_time < 0
       THEN InvalidGameInfo("invalid game create timestamp: invalid format")
     ELSE IF \E i \in DOMAIN message.name : message.name[i] = NUL
       THEN InvalidGameInfo("name contains null byte")
     ELSE IF ~has_entry(entries, "players_num")
       THEN InvalidGameInfo("no players_num entry")
     ELSE IF players_num < 0 THEN InvalidGameInfo("invalid players_num")
     ELSE IF ~has_entry(entries, "players_max")
       THEN InvalidGameInfo("no players_max entry")
     ELSE IF players_max < 0 THEN InvalidGameInfo("invalid players_max")
     ELSE [ok |-> TRUE,
           value |-> [message_id |-> message.message_id,
                      game_id |-> get_entry(entries, "game_id"),
                      name |-> message.name,
                      players_num |-> players_num,
                      players_max |-> players_max,
                      secret |-> secret,
                      create_time |-> game_create_time,
                      data |-> game_data.data]]

\* the messages decode_bytes is given
NameSet == {<<>>, <<71>>, <<195, 169>>, <<71, NUL>>, <<255>>}
MessageIdSet == {0 - 1, 7}
U8Strings == {<<49>>, <<50, 53, 53>>, <<50, 53, 54>>, <<43, 51>>}
SecretStrings == {<<48>>, <<54, 53, 53, 51, 53>>, <<115>>}
TimeStrings == {<<48>>, <<49, 54, 48, 52, 48, 49, 54, 48, 48, 48>>, <<48, 55>>}
GameIdStrings == {<<>>, <<103, 49>>}

SampleData ==
  [name |-> <<109>>, settings |-> 9, slots_total |-> 12, flags |-> 258,
   port |-> 6112]

\* game_data values: a GameData, one without a name, one followed by more
\* bytes, one cut short, one with a wrong unknown byte, and no base64 at all
DataStrings ==
  {base64_encode(GameData_encode(SampleData)),
   base64_encode(GameData_encode([SampleData EXCEPT !.name = <<>>])),
   base64_encode(GameData_encode(SampleData) \o <<1, 2>>),
   base64_encode(SubSeq(GameData_encode(SampleData), 1, 9)),
   base64_encode(<<109, NUL, 1>> \o SubSeq(GameData_encode(SampleData), 4, 14)),
   <<33, 33, 33, 33>>}

EntryKeys ==
  {"players_num", "players_max", "game_create_time", "game_secret",
   "game_data", "game_id"}

\* what is done to the entry list: nothing, an entry left out, or the
\* players_num entry given twice
Shapes == {"full", "twice"} \cup EntryKeys

without_key(entries, k) ==
  LET keep(e) == e.key # k IN SelectSeq(entries, keep)

wire_message(name, message_id, num, max, secret, time, id, data, shape) ==
  LET entries == <<Entry("players_num", num), Entry("_name", name),
                   Entry("players_max", max),
                   Entry("game_create_time", time),
                   Entry("game_secret", secret), Entry("game_data", data),
                   Entry("game_id", id)>>
  IN [name |-> name,
      message_id |-> message_id,
      entries |-> IF shape = "full" THEN entries
                  ELSE IF shape = "twice"
                  THEN <<Entry("players_num", <<120>>)>> \o entries
                  ELSE without_key(entries, shape)]

WireSet ==
  {wire_message(name, message_id, num, max, secret, time, id, data, shape) :
     name \in NameSet, message_id \in MessageIdSet, num \in U8Strings,
     max \in {<<50>>, <<48, 49, 50>>}, secret \in SecretStrings,
     time \in TimeStrings, id \in GameIdStrings, data \in DataStrings,
     shape \in Shapes}

VARIABLES
  lan_pc,      \* position in `decode, encode, decode again`
  gi_bytes,    \* the bytes given to decode_bytes
  gi_v,        \* the result of decode_bytes(bytes)
  gi_encoded,  \* the result of v.encode_to_bytes()
  gi_again     \* the result of decode_bytes(encoded)

lan_vars == <<lan_pc, gi_bytes, gi_v, gi_encoded, gi_again>>

NoBytes == [name |-> <<>>, message_id |-> 0, entries |-> <<>>]
NotYet == [ok |-> FALSE, error |-> "not yet"]

LanInit ==
  /\ lan_pc = "start"
  /\ gi_bytes \in WireSet
  /\ gi_v = NotYet
  /\ gi_encoded = NotYet
  /\ gi_again = NotYet

\* no message is being decoded
LanIdle ==
  /\ lan_pc = "off"
  /\ gi_bytes = NoBytes
  /\ gi_v = NotYet
  /\ gi_encoded = NotYet
  /\ gi_again = NotYet

\* let v = GameInfo::decode_bytes(&bytes)
Decode ==
  /\ lan_pc = "start"
  /\ gi_v' = decode_bytes(gi_bytes)
  /\ lan_pc' = IF gi_v'.ok THEN "decoded" ELSE "refused"
  /\ UNCHANGED <<gi_bytes, gi_encoded, gi_again>>

\* let encoded = v.encode_to_bytes()
Encode ==
  /\ lan_pc = "decoded"
  /\ gi_encoded' = encode_to_bytes(gi_v.value)
  /\ lan_pc' = IF gi_encoded'.ok THEN "encoded" ELSE "refused"
  /\ UNCHANGED <<gi_bytes, gi_v, gi_again>>

\* GameInfo::decode_bytes(&encoded)
DecodeAgain ==
  /\ lan_pc = "encoded"
  /\ gi_again' = decode_bytes(gi_encoded.bytes)
  /\ lan_pc' = "done"
  /\ UNCHANGED <<gi_bytes, gi_v, gi_encoded>>

\* ------------------------------------------------------------------- Next
all_vars == <<vars, conn_vars, lan_vars>>

\* the store is empty, a connection was accepted, no message is decoded
SystemInit == Init /\ ConnInit /\ LanIdle

\* as SystemInit, with a message for decode_bytes
CodecInit == Init /\ ConnInit /\ LanInit

\* several controller tasks at once, the code of the session store alone:
\* nothing writes the connected-player index or a session's status
Next ==
  \/ \E t \in Threads, pkt \in ConcurrentPackets :
       WithinBudget(pkt, MaxTokens) /\ Call(t, pkt) /\ UNCHANGED <<conn_vars, lan_vars>>
  \/ \E t \in Threads : Validate(t) /\ UNCHANGED <<conn_vars, lan_vars>>
  \/ \E t \in Threads : PreCheck(t) /\ UNCHANGED <<conn_vars, lan_vars>>
  \/ \E t \in Threads : LockPlayerToken(t) /\ UNCHANGED <<conn_vars, lan_vars>>
  \/ \E t \in Threads : LockMap(t) /\ UNCHANGED <<conn_vars, lan_vars>>
  \/ \E t \in Threads : Register(t) /\ UNCHANGED <<conn_vars, lan_vars>>
  \/ \E t \in Threads : GamesRegister(t) /\ UNCHANGED <<conn_vars, lan_vars>>
  \/ \E t \in Threads : Finish(t) /\ UNCHANGED <<conn_vars, lan_vars>>

Spec == SystemInit /\ [][Next]_all_vars

\* a task that can take a step of the handler eventually takes it; the
\* parking_lot locks are eventually fair, so a task that finds the game
\* registry lock free again and again eventually gets it
Fairness ==
  \A t \in Threads :
    /\ WF_vars(Validate(t))
    /\ SF_vars(PreCheck(t))
    /\ WF_vars(LockPlayerToken(t))
    /\ WF_vars(LockMap(t))
    /\ WF_vars(Register(t))
    /\ WF_vars(GamesRegister(t))

FairSpec == Spec /\ Fairness

\* one controller task, descriptors of up to MaxSlots slots, with the
\* players connecting and the sessions advancing around it
NextSeq ==
  \/ \E pkt \in SequentialPackets :
       WithinBudget(pkt, MaxTokens) /\ Call(1, pkt) /\ UNCHANGED <<conn_vars, lan_vars>>
  \/ Validate(1) /\ UNCHANGED <<conn_vars, lan_vars>>
  \/ PreCheck(1) /\ UNCHANGED <<conn_vars, lan_vars>>
  \/ LockPlayerToken(1) /\ UNCHANGED <<conn_vars, lan_vars>>
  \/ LockMap(1) /\ UNCHANGED <<conn_vars, lan_vars>>
  \/ Register(1) /\ UNCHANGED <<conn_vars, lan_vars>>
  \/ GamesRegister(1) /\ UNCHANGED <<conn_vars, lan_vars>>
  \/ Finish(1) /\ UNCHANGED <<conn_vars, lan_vars>>
  \/ \E p \in PlayerIdSet : ClientConnect(p) /\ UNCHANGED <<conn_vars, lan_vars>>
  \/ \E p \in PlayerIdSet : ClientDisconnect(p) /\ UNCHANGED <<conn_vars, lan_vars>>
  \/ \E g \in GameIdSet : AdvanceStatus(g) /\ UNCHANGED <<conn_vars, lan_vars>>

SpecSeq == SystemInit /\ [][NextSeq]_all_vars

\* one player connection: the serve task, its timeout future and its peers
NextConn ==
  \/ HandshakeOk /\ UNCHANGED <<vars, lan_vars>>
  \/ HandshakeFails /\ UNCHANGED <<vars, lan_vars>>
  \/ ReplaceSender /\ UNCHANGED <<vars, lan_vars>>
  \/ \E ok \in BOOLEAN : InitialRead(ok) /\ UNCHANGED <<vars, lan_vars>>
  \/ \E ok \in BOOLEAN, written \in 0..1 :
       InitialSend(ok, written) /\ UNCHANGED <<vars, lan_vars>>
  \/ \E ok \in BOOLEAN : TimerBranch(ok) /\ UNCHANGED <<vars, lan_vars>>
  \/ TimeoutBranch /\ UNCHANGED <<vars, lan_vars>>
  \/ \E ok \in BOOLEAN : OutgoingBranch(ok) /\ UNCHANGED <<vars, lan_vars>>
  \/ IncomingBranch /\ UNCHANGED <<vars, lan_vars>>
  \/ RemoveSender /\ UNCHANGED <<vars, lan_vars>>
  \/ TimeoutFires /\ UNCHANGED <<vars, lan_vars>>
  \/ \E msg \in PlayerSenderMessage : Enqueue(msg) /\ UNCHANGED <<vars, lan_vars>>
  \/ DropSenders /\ UNCHANGED <<vars, lan_vars>>
  \/ \E ev \in InboundSet : Deliver(ev) /\ UNCHANGED <<vars, lan_vars>>
  \/ \E g \in JoinedGameSet : JoinLeave(g) /\ UNCHANGED <<vars, lan_vars>>
  \/ Tick /\ UNCHANGED <<vars, lan_vars>>

SpecConn == SystemInit /\ [][NextConn]_all_vars

\* tokio::select! chooses among the ready branches at random, so a branch
\* that stays ready is taken in the end; the task gets the player state lock
ConnFairness ==
  /\ WF_conn_vars(TimeoutBranch)
  /\ WF_conn_vars(RemoveSender)

FairConn == SpecConn /\ ConnFairness

\* GameInfo: a message is decoded, the value encoded and decoded again
NextLan ==
  \/ Decode /\ UNCHANGED <<vars, conn_vars>>
  \/ Encode /\ UNCHANGED <<vars, conn_vars>>
  \/ DecodeAgain /\ UNCHANGED <<vars, conn_vars>>

SpecLan == CodecInit /\ [][NextLan]_all_vars

TypeOK ==
  /\ pc \in [Threads -> {"idle", "called", "lock_games", "lock_player_token", "lock_map",
                         "register", "games_register", "done"}]
  /\ next_token \in 0..MaxTokens
  /\ DOMAIN pending_map \subseteq 1..MaxTokens
  /\ DOMAIN games \subseteq GameIdSet

\* ================================================================ claims
\* the step in which task t leaves position p
Leaves(t, p) == pc[t] = p /\ pc'[t] # p

\* the slots that are bound to a player, in slot order
IsBound(slot) == slot # {}
BoundSlots(slots) == SelectSeq(slots, IsBound)

\* the tokens of the pending registry issued for player p
TokensOf(p) == {k \in DOMAIN pending_map : pending_map[k].player_id = p}

\* C1: the pending registry never holds two tokens whose PendingPlayer has
\* the same player_id.
C1_TokenPerPlayerUnique ==
  \A a, b \in DOMAIN pending_map :
    pending_map[a].player_id = pending_map[b].player_id => a = b

\* C2: when register is given the single pair (B, {player p, game g2}) while
\* token A of the registry maps to {player p, game g1}, g1 # g2, register
\* returns that record as stale, A is no longer a key and B maps to
\* {player p, game g2}.
C2_StaleTokenReplaced ==
  [][\A t \in Threads :
       (Leaves(t, "register") /\ Len(pending[t]) = 1) =>
         LET B == pending[t][1].token
             new == pending[t][1].player
         IN \A A \in DOMAIN pending_map :
              (/\ TokensOf(new.player_id) = {A}
               /\ pending_map[A].game_id # new.game_id)
              => /\ stale_pending_players'[t] = <<pending_map[A]>>
                 /\ A \notin DOMAIN pending_map'
                 /\ B \in DOMAIN pending_map'
                 /\ pending_map'[B] = new]_vars

\* C3: a well-formed request that passed the pre-check for a game id that is
\* registered (so its status was Created at the pre-check) is accepted, the
\* registry entry becomes the session built from its descriptor, and the
\* tokens minted for it are keys the pending registry does not hold yet.
C3_RecreateCreatedGame ==
  [][\A t \in Threads :
       /\ (/\ Leaves(t, "games_register")
           /\ packet[t].id \in DOMAIN games
           /\ packet[t].well_formed)
          => /\ pc'[t] = "done"
             /\ ret'[t].kind = "Accept"
             /\ ret'[t].game_id = packet[t].id
             /\ Len(ret'[t].player_tokens) = Len(BoundSlots(packet[t].slots))
             /\ games'[packet[t].id] =
                  [status |-> "Created", slots |-> packet[t].slots]
       /\ (Leaves(t, "lock_games") /\ pc'[t] = "lock_player_token")
          => \A i \in DOMAIN pending'[t] :
               pending'[t][i].token \notin DOMAIN pending_map]_vars

\* an accepted re-creation: the only registered game was created and then
\* overwritten, and the tokens of both submissions are in the registry
C3_Witness ==
  /\ pc[1] = "done"
  /\ ret[1].kind = "Accept"
  /\ DOMAIN games = {packet[1].id}
  /\ GAME_SESSIONS = 3
  /\ Cardinality(DOMAIN pending_map) = 2

\* C4: a request whose slots bind no player fails with NoPlayer and leaves
\* the pending registry, the token index, the game registry and the
\* connected-player index as they were.
C4_NoPlayer ==
  [][\A t \in Threads :
       (/\ Leaves(t, "called")
        /\ packet[t].has_game
        /\ \A i \in DOMAIN packet[t].slots : packet[t].slots[i] = {})
       => /\ pc'[t] = "done"
          /\ ret'[t] = [kind |-> "Err", error |-> "NoPlayer"]
          /\ UNCHANGED <<pending_map, player_token, games,
                         connected_players>>]_vars

\* a request with slots, none of them bound, was refused while the
\* registries were not empty
C4_Witness ==
  /\ pc[1] = "done"
  /\ ret[1] = [kind |-> "Err", error |-> "NoPlayer"]
  /\ Len(packet[1].slots) > 0
  /\ DOMAIN pending_map # {}
  /\ DOMAIN games # {}

\* C5: a request one of whose bound players is in the connected-player index
\* fails with PlayerBusy(id) for such a player, whatever the state of the
\* game registry, and mutates neither the pending registry nor the game
\* registry.
C5_PlayerBusy ==
  [][\A t \in Threads :
       (/\ Leaves(t, "called")
        /\ packet[t].has_game
        /\ \E i \in DOMAIN packet[t].slots :
             packet[t].slots[i] \cap connected_players # {})
       => /\ pc'[t] = "done"
          /\ ret'[t].kind = "Err"
          /\ ret'[t].error = "PlayerBusy"
          /\ ret'[t].player_id \in connected_players
          /\ \E i \in DOMAIN packet[t].slots :
               ret'[t].player_id \in packet[t].slots[i]
          /\ UNCHANGED <<pending_map, player_token, games>>]_vars

\* PlayerBusy for a connected player although the game id of the request is
\* registered with a status other than Created
C5_Witness ==
  /\ pc[1] = "done"
  /\ ret[1].kind = "Err"
  /\ ret[1].error = "PlayerBusy"
  /\ ret[1].player_id \in connected_players
  /\ \E i \in DOMAIN packet[1].slots : ret[1].player_id \in packet[1].slots[i]
  /\ packet[1].id \in DOMAIN games
  /\ games[packet[1].id].status # "Created"
  /\ DOMAIN pending_map # {}

\* C6: when the pre-check finds the game id registered with a status other
\* than Created the request is rejected with GameExists, no token is minted,
\* and the game registry, the pending registry and the token index are as
\* they were; the validation before it changes none of them either.
C6_GameExists ==
  [][\A t \in Threads :
       /\ (/\ Leaves(t, "lock_games")
           /\ packet[t].id \in DOMAIN games
           /\ games[packet[t].id].status # "Created")
          => /\ pc'[t] = "done"
             /\ ret'[t] = [kind |-> "Reject", game_id |-> packet[t].id,
                           reason |-> "GameExists"]
             /\ UNCHANGED <<games, pending_map, player_token, next_token>>
       /\ Leaves(t, "called")
          => UNCHANGED <<games, pending_map, player_token, next_token>>]_vars

\* a request was rejected with GameExists for a game that is not Created
C6_Witness ==
  \E t \in Threads :
    /\ pc[t] = "done"
    /\ ret[t].kind = "Reject"
    /\ ret[t].reason = "GameExists"
    /\ packet[t].id \in DOMAIN games
    /\ games[packet[t].id].status # "Created"
    /\ DOMAIN pending_map # {}

\* C7: a request refused for the reason GameExists or PlayerBusy gets a
\* reject response, never a hard error with that reason.
C7_RefusalIsReject ==
  \A t \in Threads :
    (pc[t] = "done" /\ ret[t].kind = "Err")
    => ret[t].error \notin {"GameExists", "PlayerBusy"}

\* C8: the accept response lists one (player_id, token) pair per bound slot,
\* in slot order, with distinct tokens; each token is a key of the pending
\* registry mapped to PendingPlayer{player_id, game_id} of the request, and
\* the game registry holds a session for game_id.
C8_AcceptResponse ==
  [][\A t \in Threads :
       (Leaves(t, "games_register") /\ ret'[t].kind = "Accept")
       => LET bound == BoundSlots(packet[t].slots)
              tokens == ret'[t].player_tokens
          IN /\ ret'[t].game_id = packet[t].id
             /\ Len(tokens) = Len(bound)
             /\ \A i \in DOMAIN tokens :
                  /\ tokens[i].player_id \in bound[i]
                  /\ tokens[i].token \in DOMAIN pending_map'
                  /\ pending_map'[tokens[i].token] =
                       [player_id |-> tokens[i].player_id,
                        game_id |-> packet[t].id]
                  /\ \A j \in DOMAIN tokens :
                       tokens[i].token = tokens[j].token => i = j
             /\ packet[t].id \in DOMAIN games']_vars

\* an accepted request for two different players
C8_Witness ==
  /\ pc[1] = "done"
  /\ ret[1].kind = "Accept"
  /\ Len(ret[1].player_tokens) = 2
  /\ ret[1].player_tokens[1].player_id # ret[1].player_tokens[2].player_id

\* C9: between the pre-check of a call and its session insertion no other
\* call is between its own pre-check and insertion, no other call performs
\* its pre-check, and no step of another task changes the game registry,
\* the pending registry or the token index.
InCriticalSection(t) ==
  pc[t] \in {"lock_player_token", "lock_map", "register", "games_register"}

C9_AtomicCreate ==
  /\ [](\A t, u \in Threads :
          (InCriticalSection(t) /\ InCriticalSection(u)) => t = u)
  /\ [][\A t \in Threads :
          (InCriticalSection(t) /\ pc'[t] = pc[t])
          => /\ \A u \in Threads : pc[u] = "lock_games" => pc'[u] = "lock_games"
             /\ games' = games
             /\ pending_map' = pending_map
             /\ player_token' = player_token]_vars

\* two calls for the same game id: one past its pre-check and about to
\* insert, the other waiting for the game registry lock
C9_Witness ==
  \E t, u \in Threads :
    /\ pc[t] = "games_register"
    /\ pc[u] = "lock_games"
    /\ packet[t].id = packet[u].id

\* C10: the locks are taken in the order game registry, token index, pending
\* registry; some running call can always take a step; every call returns.
Running(t) == pc[t] \notin {"idle", "done"}

Blocked(t) ==
  \/ pc[t] = "lock_games" /\ ~lock_free(g_guard)
  \/ pc[t] = "lock_player_token" /\ ~lock_free(player_token_guard)
  \/ pc[t] = "lock_map" /\ ~lock_free(map_guard)

LockOrder ==
  /\ player_token_guard # NoThread => g_guard = player_token_guard
  /\ map_guard # NoThread => player_token_guard = map_guard

C10_DeadlockFree ==
  /\ [](LockOrder /\ ((\E t \in Threads : Running(t))
                      => \E t \in Threads : Running(t) /\ ~Blocked(t)))
  /\ \A t \in Threads : (pc[t] = "called") ~> (pc[t] = "done")

\* a call holds the three locks while another waits for the first of them
C10_Witness ==
  \E t, u \in Threads :
    /\ pc[t] = "register"
    /\ g_guard = t /\ player_token_guard = t /\ map_guard = t
    /\ pc[u] = "lock_games"

\* C11: an accepted create-game call increments GAME_SESSIONS by one when
\* its game id is a new key of the game registry and leaves it unchanged
\* when it overwrites a session; so the counter always equals the number of
\* game ids in the registry.
C11_SessionCounter ==
  /\ [](GAME_SESSIONS = Cardinality(DOMAIN games))
  /\ [][\A t \in Threads :
          (Leaves(t, "games_register") /\ ret'[t].kind = "Accept")
          => GAME_SESSIONS' =
               GAME_SESSIONS + (IF packet[t].id \in DOMAIN games THEN 0 ELSE 1)]_vars

\* C20: when register returns, for each pair (token, player) it was given
\* the token index maps player.player_id to that token, or to the token of a
\* later pair for the same player, and the pending map maps the token to the
\* player.
C20_RegisterInstallsBoth ==
  [][\A t \in Threads :
       Leaves(t, "register") =>
         \A i \in DOMAIN pending[t] :
           LET token == pending[t][i].token
               player == pending[t][i].player
           IN /\ player.player_id \in DOMAIN player_token'
              /\ \E j \in i..Len(pending[t]) :
                   /\ pending[t][j].player.player_id = player.player_id
                   /\ player_token'[player.player_id] = pending[t][j].token
              /\ token \in DOMAIN pending_map'
              /\ pending_map'[token] = player]_vars

\* ------------------------------------------------ claims: connection loop
LoopEnded == cpc \in {"returned", "exited"}

\* the timeout of the last ping has fired and no inbound event was delivered
FiredUnanswered ==
  timeout_task = "fired" /\ ping_timout_abort /\ received = 0

\* C12 as stated: a ping was sent, its timeout fired and no inbound frame
\* arrived; then the loop has terminated in TimedOut, whatever was dequeued
\* from the outbound queue in the meantime.
C12_DeadPeerTimesOut ==
  (FiredUnanswered /\ LoopEnded) => result = "TimedOut"

\* C12, amended: an armed timeout is cancelled by nothing but an inbound
\* event, it fires when its 5 seconds are over and raises the signal; a loop
\* still running then terminates, in TimedOut when it takes the signal, and
\* otherwise only by a Broken sentinel, a closed queue or a send failure.
C12_DeadPeerDetected ==
  /\ [](timeout_task = "pending" =>
          /\ now <= timeout_at
          /\ elapsed_ms(timeout_at) = ping_ms + elapsed_ms(PING_TIMEOUT))
  /\ [][(timeout_task = "pending" /\ timeout_task' # "pending") =>
          \/ timeout_task' = "fired" /\ notify_permit' /\ now = timeout_at
          \/ inbound # <<>> /\ inbound' = <<>>]_conn_vars
  /\ [][(notify_permit /\ ~notify_permit') => result' = "TimedOut"]_conn_vars
  /\ []((FiredUnanswered /\ LoopEnded) =>
          result \in {"TimedOut", "SenderBroken", "SenderDropped", "SendFailed"})
  /\ (notify_permit /\ cpc = "select") ~> LoopEnded

\* the loop timed out although it sent a dequeued message after the ping
C12_Witness ==
  /\ result = "TimedOut"
  /\ received = 0
  /\ Len(wire) >= 2
  /\ wire[Len(wire) - 1] = "Ping"
  /\ wire[Len(wire)] \in {"Frame", "Frames"}

\* C13: an inbound frame of any type that the loop receives while a ping
\* timeout is armed and has not fired cancels it: the future never raises
\* the signal, the loop does not end in TimedOut because of that ping, and
\* it goes on with a new ping interval.
C13_FrameCancelsTimeout ==
  /\ [][(/\ cpc = "select"
         /\ inbound # <<>> /\ inbound' = <<>>
         /\ Head(inbound).kind # "Error"
         /\ timeout_task = "pending")
        => /\ timeout_task' = "aborted"
           /\ ~ping_timout_abort'
           /\ ~notify_permit'
           /\ cpc' = "select"
           /\ next_ping' = now + PING_INTERVAL]_conn_vars
  /\ [][timeout_task = "aborted" =>
          timeout_task' \in {"aborted", "pending"}]_conn_vars
  /\ [](timeout_task = "aborted" => ~notify_permit /\ result # "TimedOut")

\* a frame that is no pong cancelled the timeout, the 5 seconds are over and
\* the loop is waiting
C13_Witness ==
  /\ timeout_task = "aborted"
  /\ cpc = "select"
  /\ now > timeout_at
  /\ received = 1
  /\ latency = NoLatency

\* C14: when the loop dequeues a Broken sentinel it terminates at once:
\* that step writes no frame, and once the loop has ended nothing is written
\* to the stream and nothing more is taken from the outbound queue.
C14_BrokenTerminates ==
  /\ [][(/\ cpc = "select"
         /\ receiver # <<>> /\ Head(receiver) = "Broken"
         /\ receiver' = Tail(receiver))
        => /\ cpc' = "returned"
           /\ result' = "SenderBroken"
           /\ wire' = wire]_conn_vars
  /\ [][LoopEnded =>
          /\ LoopEnded'
          /\ wire' = wire
          /\ Len(receiver') >= Len(receiver)
          /\ result' = result]_conn_vars

\* the loop ended on a Broken sentinel with a message queued behind it
C14_Witness ==
  /\ cpc = "exited"
  /\ result = "SenderBroken"
  /\ receiver # <<>>
  /\ enqueued = 2

\* the step in which the loop sends a ping
PingSent == Len(wire') = Len(wire) + 1 /\ wire'[Len(wire')] = "Ping"

\* C15: a ping is sent exactly 30 seconds after the loop started or after
\* the previous ping, whatever was dequeued or received in between; the
\* step that sends it sends one ping and arms one 5-second timeout, and no
\* other step arms a timeout.
C15_FixedInterval ==
  /\ [][PingSent =>
          /\ elapsed_ms(now) = ping_ms + elapsed_ms(PING_INTERVAL)
          /\ ping_ms' = elapsed_ms(now)
          /\ timeout_task' = "pending"
          /\ timeout_at' = now + PING_TIMEOUT]_conn_vars
  /\ [][(timeout_task' = "pending" /\ timeout_task # "pending")
        => PingSent]_conn_vars

\* C16: send_initial_state sends the session snapshot, InGame exactly when
\* the player was joined to a game when its state was read, followed by the
\* game-info snapshot exactly in that case; the loop is entered only after
\* these frames were written, it takes no timer, queue or inbound event
\* before, and a failed startup never enters the loop.
C16_StartupOrder ==
  /\ [][(cpc = "initial" /\ cpc' = "initial_send") =>
          game_id' = joined_game_id]_conn_vars
  /\ [][(cpc # "select" /\ cpc' = "select") =>
          /\ cpc = "initial_send"
          /\ wire = <<>>
          /\ wire' = IF game_id # NoGame THEN <<"SessionInGame", "GameInfo">>
                     ELSE <<"SessionIdle">>
          /\ receiver' = receiver
          /\ inbound' = inbound
          /\ ping_ms' = 0 /\ timeout_task' = "none"]_conn_vars
  /\ [](cpc \in {"handshake", "accepted", "initial", "initial_send"} =>
          /\ wire = <<>>
          /\ received = 0
          /\ Len(receiver) = enqueued
          /\ timeout_task = "none")
  /\ [](result = "InitialStateFailed" =>
          /\ LoopEnded
          /\ Len(receiver) = enqueued
          /\ received = 0
          /\ timeout_task = "none"
          /\ \A i \in DOMAIN wire : wire[i] \in {"SessionInGame", "SessionIdle"})

\* a player joined to a game entered the loop with a message already queued
C16_Witness ==
  /\ cpc = "select"
  /\ wire = <<"SessionInGame", "GameInfo">>
  /\ receiver # <<>>
  /\ now = 0

\* the step in which the loop handles a pong
PongHandled ==
  cpc = "select" /\ inbound # <<>> /\ inbound' = <<>>
    /\ Head(inbound).kind = "Pong"

\* C17 as stated: for a pong that arrives within 5 seconds of a ping stamped
\* T and echoes T - 3 the loop computes the latency 0.
C17_SkewedPongIsZero ==
  [][(/\ PongHandled
      /\ timeout_task = "pending"
      /\ Head(inbound).ms = ping_ms - 3)
     => latency' = 0]_conn_vars

\* C17, amended: the latency of a pong is the elapsed time minus the echoed
\* stamp, and 0 when the stamp is ahead of the elapsed time; it is never
\* negative. For an echo of T - 3 it is the time since the ping plus 3 ms,
\* so at least 3; it is 0 for an echo ahead of the clock, such as T + 3
\* arriving in the millisecond of the ping.
C17_LatencySaturates ==
  [][PongHandled =>
       LET ms == Head(inbound).ms
           elapsed == elapsed_ms(now)
       IN /\ latency' >= 0
          /\ ms <= elapsed => latency' = elapsed - ms
          /\ ms > elapsed => latency' = 0
          /\ (timeout_task = "pending" /\ ms = ping_ms - 3)
             => latency' = (elapsed - ping_ms) + 3]_conn_vars

\* a pong echoing the stamp minus 3 came in the instant of the ping and was
\* logged with latency 3
C17_Witness ==
  /\ latency = 3
  /\ ping_ms > 0
  /\ elapsed_ms(now) = ping_ms
  /\ received = 1
  /\ timeout_task = "aborted"

\* the ways handle_stream returns
TerminalSet ==
  {"TimedOut", "SenderBroken", "SenderDropped", "SendFailed", "StreamError",
   "InitialStateFailed"}

\* C18: a connection whose handshake succeeded keeps its sender registered
\* until handle_stream has returned; then, whatever ended the loop, the task
\* calls remove_sender once, and never before or again.
C18_Teardown ==
  /\ [][remove_sender_calls' # remove_sender_calls =>
          /\ cpc = "returned" /\ cpc' = "exited"
          /\ result \in TerminalSet
          /\ remove_sender_calls' = 1
          /\ player_sender /\ ~player_sender']_conn_vars
  /\ [][player_sender /\ ~player_sender' =>
          remove_sender_calls' = remove_sender_calls + 1]_conn_vars
  /\ [](cpc \in {"initial", "initial_send", "select", "returned"} =>
          player_sender /\ remove_sender_calls = 0)
  /\ [](cpc = "exited" => remove_sender_calls = 1 /\ ~player_sender)
  /\ [](cpc = "dropped" => remove_sender_calls = 0 /\ ~player_sender)
  /\ [][cpc = "returned" => result' = result]_conn_vars
  /\ (cpc = "returned") ~> (cpc = "exited")

\* the sender was removed after a ping timeout ended the loop
C18_Witness ==
  /\ cpc = "exited"
  /\ result = "TimedOut"
  /\ remove_sender_calls = 1
  /\ ~player_sender

\* ---------------------------------------------------- claims: GameInfo
\* C19: a GameInfo v that decode_bytes produced is encoded without error,
\* and decoding the encoded bytes succeeds and gives v again, equal on
\* message_id, game_id, create_time, secret, name, players_num, players_max
\* and data.
C19_RoundTrip ==
  /\ (gi_v.ok /\ lan_pc # "decoded") => gi_encoded.ok
  /\ lan_pc = "done" =>
       /\ gi_again.ok
       /\ gi_again.value.message_id = gi_v.value.message_id
       /\ gi_again.value.game_id = gi_v.value.game_id
       /\ gi_again.value.create_time = gi_v.value.create_time
       /\ gi_again.value.secret = gi_v.value.secret
       /\ gi_again.value.name = gi_v.value.name
       /\ gi_again.value.players_num = gi_v.value.players_num
       /\ gi_again.value.players_max = gi_v.value.players_max
       /\ gi_again.value.data = gi_v.value.data

\* a round trip of a message that is not what encode_to_bytes writes: a name
\* of two bytes, "+3" players, "012" at most, a time of "07"
C19_Witness ==
  /\ lan_pc = "done"
  /\ gi_v.value.name = <<195, 169>>
  /\ gi_v.value.players_num = 3
  /\ gi_v.value.players_max = 12
  /\ gi_v.value.create_time = 7
  /\ gi_encoded.bytes # gi_bytes

\* C21: a timeout notification that is raised at about the time an inbound
\* frame arrives is a no-op once the loop has handled that frame: the loop
\* ends in TimedOut only while the ping it sent last is unanswered, that is
\* while no inbound frame has taken the abort handle of its timeout.
C21_LateTimeoutIsNoOp ==
  result = "TimedOut" => ping_timout_abort

\* C22: a create-game call that returns a hard error leaves the pending
\* registry and the token index as they were: none of the tokens the call
\* minted is a key of the pending registry or a value of the token index;
\* and whenever no call holds the game registry lock, every PendingPlayer of
\* the pending registry names a game id that is a key of the game registry.
C22_FailureAtomicity ==
  /\ \A t \in Threads :
       (pc[t] = "done" /\ ret[t].kind = "Err") =>
         \A i \in 1..Len(pending[t]) :
           /\ pending[t][i].token \notin DOMAIN pending_map
           /\ \A p \in DOMAIN player_token :
                player_token[p] # pending[t][i].token
  /\ g_guard = NoThread =>
       \A token \in DOMAIN pending_map :
         pending_map[token].game_id \in DOMAIN games

====
